---- MODULE Spec2Model ----
(***************************************************************************)
(* Crypto Store API (src/main.py, src/schemas.py): products, checkout      *)
(* payment intents, the mock confirmation webhook and the orders it        *)
(* creates, over a shared document store.                                  *)
(*                                                                         *)
(* Every request handler runs in a worker (Procs).  A handler is a         *)
(* sequence of store steps (find_one, find, count_documents, insert_one,   *)
(* update_one); the steps of different workers interleave freely, the      *)
(* store executes one step at a time.  Local computation is part of an     *)
(* adjacent store step.  At most                                           *)
(* MaxCalls requests are served and the collections hold at most           *)
(* MaxProducts, MaxIntents and MaxOrders documents.                        *)
(*                                                                         *)
(* Encodings                                                               *)
(*   - an ObjectId is a record [coll, n]; its 24-hex rendering and every   *)
(*     other id string a client can send is a sequence of tokens           *)
(*     (<<"oid", coll, n>> renders an ObjectId, <<"bad">> is a string that *)
(*     is not 24 hex digits, <<>> is the empty string);                    *)
(*   - a string the code reads character by character (a currency code)   *)
(*     is the sequence of its ASCII characters;                            *)
(*   - a number in a request or a document is a decimal [neg, whole, frac] *)
(*     with frac in units of 1e-8 (whole below 2^31, at most 15            *)
(*     significant digits), standing for the double nearest to it;         *)
(*     arithmetic on numbers is IEEE-754 double arithmetic (round to       *)
(*     nearest, ties to even), computed exactly on digit sequences; an     *)
(*     amount float() rejects is [text |-> s];                             *)
(*   - datetime.now() reads the logical clock; time advances with each     *)
(*     write of the webhook, so a later confirmation carries a later       *)
(*     confirmed_at and a later order a later created_at;                  *)
(*   - Python None is the value None for optional strings and the empty    *)
(*     sequence for optional timestamps and documents.                     *)
(***************************************************************************)
EXTENDS Integers, Sequences, FiniteSets, TLC

\* ---------------------------------------------------------------- bounds
MaxCalls == 4
MaxProducts == 2
MaxIntents == 2
MaxOrders == 2

\* the workers that serve requests concurrently
Procs == {"w1", "w2"}

\* ------------------------------------------------------------- constants
BtcSpotUsd == 60000
ExpiryMinutes == 30
RecentLimit == 5
\* the binary digits a float keeps, the decimal digits of frac
Precision == 53
DecimalDigits == 8

None == "<None>"
EmptyStr == <<>>
BadIdStr == <<"bad">>

\* os.getenv("WEBHOOK_MOCK_SECRET", "demo-secret") with the variable unset
Expected == "demo-secret"

USDC == <<"U", "S", "D", "C">>
USDT == <<"U", "S", "D", "T">>
BTC == <<"B", "T", "C">>
Currencies == {USDC, USDT, BTC}
Statuses == {"pending", "confirmed", "expired"}

\* ------------------------------------------------------------ ObjectIds
Oid(c, n) == [coll |-> c, n |-> n]
InvalidOid == [coll |-> "invalid", n |-> 0]

\* str(ObjectId)
OidStr(o) == <<"oid", o.coll, o.n>>

\* ObjectId(s): raises (InvalidOid) unless s renders an ObjectId
ParseOid(s) ==
    IF Len(s) = 3 /\ s[1] = "oid" THEN Oid(s[2], s[3]) ELSE InvalidOid

\* ------------------------------------------------------------- numbers
RECURSIVE Pow(_, _)
Pow(b, n) == IF n = 0 THEN 1 ELSE b * Pow(b, n - 1)

Abs(n) == IF n < 0 THEN -n ELSE n

\* the decimal n / 10^digits
Decimal(n, digits) ==
    [neg |-> n < 0,
     whole |-> Abs(n) \div Pow(10, digits),
     frac |-> (Abs(n) % Pow(10, digits)) * Pow(10, DecimalDigits - digits)]

\* a field value that is not a number
Text(s) == [text |-> s]

\* float(v) succeeds
IsNumber(v) == "frac" \in DOMAIN v

\* A natural number of any size is held as its digits in base Base, least
\* significant first, without a zero digit at the most significant end.
LimbBits == 15
Base == 2^LimbBits

\* a natural number below 2^31 as digits, and back
Big(n) ==
    IF n = 0 THEN <<>>
    ELSE IF n < Base THEN <<n>>
    ELSE IF n < Base * Base THEN <<n % Base, n \div Base>>
    ELSE <<n % Base, (n \div Base) % Base, n \div (Base * Base)>>

Digit(a, i) == IF i <= Len(a) THEN a[i] ELSE 0

IntOf(a) == Digit(a, 1) + Base * Digit(a, 2) + Base * Base * Digit(a, 3)

\* the first n digits of a without the zero digits at the most significant
\* end
RECURSIVE TrimTo(_, _)
TrimTo(a, n) ==
    IF n = 0 THEN <<>>
    ELSE IF a[n] # 0 THEN (IF n = Len(a) THEN a ELSE SubSeq(a, 1, n))
    ELSE TrimTo(a, n - 1)

Trim(a) == TrimTo(a, Len(a))

\* the digits from position i on of a + b, with carry c into position i
RECURSIVE AddFrom(_, _, _, _)
AddFrom(a, b, i, c) ==
    IF i > Len(a) /\ i > Len(b) THEN Big(c)
    ELSE LET t == Digit(a, i) + Digit(b, i) + c
         IN  <<t % Base>> \o AddFrom(a, b, i + 1, t \div Base)

AddBig(a, b) == AddFrom(a, b, 1, 0)

\* the digits from position i on of a - b for a >= b, with borrow c
RECURSIVE SubFrom(_, _, _, _)
SubFrom(a, b, i, c) ==
    IF i > Len(a) THEN <<>>
    ELSE LET t == a[i] - Digit(b, i) - c
         IN  <<(Base + t) % Base>> \o SubFrom(a, b, i + 1, IF t < 0 THEN 1 ELSE 0)

SubBig(a, b) == Trim(SubFrom(a, b, 1, 0))

\* the digits from position i on of a * k for a natural k < 2 * Base, with
\* carry c
RECURSIVE MulFrom(_, _, _, _)
MulFrom(a, k, i, c) ==
    IF i > Len(a) THEN Big(c)
    ELSE LET t == a[i] * k + c
         IN  <<t % Base>> \o MulFrom(a, k, i + 1, t \div Base)

MulBig(a, k) == IF k = 0 THEN <<>> ELSE IF k = 1 THEN a ELSE MulFrom(a, k, 1, 0)

\* a * k^n for k <= 10, four factors at a time
RECURSIVE MulPow(_, _, _)
MulPow(a, k, n) ==
    IF n = 0 THEN a
    ELSE IF n < 4 THEN MulBig(a, Pow(k, n))
    ELSE MulPow(MulBig(a, Pow(k, 4)), k, n - 4)

\* long division of the digits a[1..i] under the remainder rem by a natural
\* 0 < d < 2 * Base: quotient digits (not trimmed) and remainder
RECURSIVE DivFrom(_, _, _, _)
DivFrom(a, i, d, rem) ==
    IF i = 0 THEN [q |-> <<>>, r |-> rem]
    ELSE LET t == rem * Base + a[i]
             rest == DivFrom(a, i - 1, d, t % d)
         IN  [q |-> Append(rest.q, t \div d), r |-> rest.r]

\* a divided by d: quotient (digits) and remainder (integer)
DivBig(a, d) ==
    IF d = 1 THEN [q |-> a, r |-> 0]
    ELSE LET qr == DivFrom(a, Len(a), d, 0)
         IN  [q |-> Trim(qr.q), r |-> qr.r]

\* a divided by 10^n, four factors at a time: quotient (digits) and
\* remainder (integer)
RECURSIVE DivPow10(_, _)
DivPow10(a, n) ==
    IF n = 0 THEN [q |-> a, r |-> 0]
    ELSE IF n < 4 THEN DivBig(a, Pow(10, n))
    ELSE LET low == DivBig(a, Pow(10, 4))
             rest == DivPow10(low.q, n - 4)
         IN  [q |-> rest.q, r |-> low.r + Pow(10, 4) * rest.r]

\* a < b
LessBig(a, b) ==
    \/ Len(a) < Len(b)
    \/ /\ Len(a) = Len(b)
       /\ \E i \in DOMAIN a :
            a[i] < b[i] /\ \A j \in (i + 1)..Len(a) : a[j] = b[j]

\* the number of binary digits of a
BitLen(a) ==
    IF a = <<>> THEN 0
    ELSE LimbBits * (Len(a) - 1)
           + CHOOSE w \in 1..LimbBits : a[Len(a)] \div 2^(w - 1) = 1

\* binary digit j of a, the least significant being digit 0
Bit(a, j) == (Digit(a, j \div LimbBits + 1) \div 2^(j % LimbBits)) % 2

\* the binary digits 0..j-1 of a are all zero
LowZero(a, j) ==
    /\ \A i \in 1..(j \div LimbBits) : Digit(a, i) = 0
    /\ Digit(a, j \div LimbBits + 1) % 2^(j % LimbBits) = 0

\* a * 2^k
Shl(a, k) ==
    IF a = <<>> THEN a
    ELSE [i \in 1..(k \div LimbBits) |-> 0] \o MulBig(a, 2^(k % LimbBits))

\* a / 2^k rounded down
Shr(a, k) ==
    LET high == IF k \div LimbBits >= Len(a) THEN <<>>
                ELSE SubSeq(a, k \div LimbBits + 1, Len(a))
    IN  DivBig(high, 2^(k % LimbBits)).q

\* a / 2^k rounded to the nearest natural, ties to even
RoundShift(a, k) ==
    IF k <= 0 THEN Shl(a, -k)
    ELSE IF Bit(a, k - 1) = 1 /\ (~LowZero(a, k - 1) \/ Bit(a, k) = 1)
    THEN AddBig(Shr(a, k), <<1>>)
    ELSE Shr(a, k)

\* A Python float is an IEEE-754 double [neg, m, e] of value
\* (-1)^neg * m * 2^e, m a natural number of at most Precision binary digits.
Zero == [neg |-> FALSE, m |-> <<>>, e |-> 0]

\* the double nearest to (-1)^neg * m * 2^e (round to nearest, ties to even)
Double(neg, m, e) ==
    LET extra == BitLen(m) - Precision
    IN  IF m = <<>> THEN Zero
        ELSE IF extra <= 0 THEN [neg |-> neg, m |-> m, e |-> e]
        ELSE [neg |-> neg, m |-> RoundShift(m, extra), e |-> e + extra]

\* the double nearest to (-1)^neg * m * 2^e / (d * 10^n), 0 < d < 2 * Base:
\* the quotient is carried to at least Precision + 2 binary digits and a
\* last digit records a remainder
DivDouble(neg, m, e, d, n) ==
    LET need == Precision + 2 + BitLen(Big(d)) + 4 * n - BitLen(m)
        s == IF need > 0 THEN need ELSE 0
        first == DivBig(Shl(m, s), d)
        rest == DivPow10(first.q, n)
        sticky == IF first.r = 0 /\ rest.r = 0 THEN 0 ELSE 1
    IN  Double(neg, AddBig(Shl(rest.q, 1), Big(sticky)), e - s - 1)

\* float(v) for a number v: the double nearest to the decimal
float(v) ==
    DivDouble(v.neg,
              AddBig(MulPow(Big(v.whole), 10, DecimalDigits), Big(v.frac)),
              0, 1, DecimalDigits)

\* x + y on doubles
DAdd(x, y) ==
    IF x.m = <<>> THEN y
    ELSE IF y.m = <<>> THEN x
    ELSE LET emin == IF x.e < y.e THEN x.e ELSE y.e
             a == Shl(x.m, x.e - emin)
             b == Shl(y.m, y.e - emin)
         IN  IF x.neg = y.neg THEN Double(x.neg, AddBig(a, b), emin)
             ELSE IF a = b THEN Zero
             ELSE IF LessBig(a, b) THEN Double(y.neg, SubBig(b, a), emin)
             ELSE Double(x.neg, SubBig(a, b), emin)

\* x / d on doubles for a whole d, 0 < d < 2 * Base
DDiv(x, d) == DivDouble(x.neg, x.m, x.e, d, 0)

\* round(x, ndigits) on a double: the decimal with ndigits digits nearest to
\* the binary value of x, ties to even
round(x, ndigits) ==
    LET c == RoundShift(MulPow(x.m, 5, ndigits), -(x.e + ndigits))
        parts == DivPow10(c, ndigits)
    IN  [neg |-> x.neg /\ c # <<>>,
         whole |-> IntOf(parts.q),
         frac |-> parts.r * Pow(10, DecimalDigits - ndigits)]

\* ------------------------------------------------------------ utilities
LowerCase == <<"a", "b", "c", "d", "e", "f", "g", "h", "i", "j", "k", "l", "m",
               "n", "o", "p", "q", "r", "s", "t", "u", "v", "w", "x", "y", "z">>
UpperCase == <<"A", "B", "C", "D", "E", "F", "G", "H", "I", "J", "K", "L", "M",
               "N", "O", "P", "Q", "R", "S", "T", "U", "V", "W", "X", "Y", "Z">>

\* str.upper() on a string of ASCII characters
Upper(s) ==
    [i \in DOMAIN s |->
        IF \E k \in DOMAIN LowerCase : LowerCase[k] = s[i]
        THEN UpperCase[CHOOSE k \in DOMAIN LowerCase : LowerCase[k] = s[i]]
        ELSE s[i]]

\* usd_to_crypto on a number amount_usd
usd_to_crypto(amount_usd, currency) ==
    IF currency \in {USDC, USDT}
    THEN round(float(amount_usd), 2)
    ELSE IF currency = BTC
    THEN round(DDiv(float(amount_usd), BtcSpotUsd), 8)
    ELSE amount_usd

\* random_address: the prefix and 34 random characters (one core per draw)
AddressCores == {"core"}
random_address(prefix, core) == <<prefix, "_", core>>

\* Python truthiness of an optional string
Truthy(s) == s # None /\ s # ""

\* a query filter: eq gives the fields compared with a value, exists the
\* fields under {"$exists": True}
Matches(d, eq, exists) ==
    /\ \A f \in exists : f \in DOMAIN d
    /\ \A f \in DOMAIN eq : f \in DOMAIN d /\ d[f] = eq[f]

\* no equality condition in a filter
NoEq == [f \in {} |-> TRUE]

\* the documents of a collection that satisfy a filter, as a set
Matching(coll, eq, exists) ==
    {coll[i] : i \in {j \in DOMAIN coll : Matches(coll[j], eq, exists)}}

\* find_one: any one matching document (natural order is up to the store),
\* or nothing; the result is an optional document
FindOne(coll, eq, exists) ==
    IF Matching(coll, eq, exists) = {} THEN {<<>>}
    ELSE {<<d>> : d \in Matching(coll, eq, exists)}

VARIABLES product, paymentintent, order, clock, calls, pc, res, loc

vars == <<product, paymentintent, order, clock, calls, pc, res, loc>>
store == <<product, paymentintent, order>>

NoRes == [op |-> "none", code |-> 0, body |-> <<>>]
\* the local variables of a handler that are live across its store steps
NoLoc == [prod |-> <<>>, product_id |-> EmptyStr, currency |-> <<>>,
          intent |-> <<>>, buyer_email |-> None, intent_id |-> EmptyStr,
          newId |-> EmptyStr, picked |-> InvalidOid,
          total_products |-> 0, total_orders |-> 0, total_revenue |-> Zero]

Init ==
    /\ product = <<>>
    /\ paymentintent = <<>>
    /\ order = <<>>
    /\ clock = 1
    /\ calls = 0
    /\ pc = [p \in Procs |-> "idle"]
    /\ res = [p \in Procs |-> NoRes]
    /\ loc = [p \in Procs |-> NoLoc]

\* a worker accepts a request (at most MaxCalls requests are served)
Accept(p) ==
    /\ pc[p] = "idle"
    /\ calls < MaxCalls
    /\ calls' = calls + 1

HttpError(code, detail) == [code |-> code, body |-> [detail |-> detail]]
Ok(body) == [code |-> 200, body |-> body]

\* a handler returns: the worker holds the response (tagged with the handler
\* that produced it) until it is sent
Finish(p, handler, response) ==
    /\ pc' = [pc EXCEPT ![p] = "done"]
    /\ res' = [res EXCEPT ![p] =
                 [op |-> handler, code |-> response.code, body |-> response.body]]

\* the response has been sent; the worker takes the next request
Return(p) ==
    /\ pc[p] = "done"
    /\ pc' = [pc EXCEPT ![p] = "idle"]
    /\ res' = [res EXCEPT ![p] = NoRes]
    /\ loc' = [loc EXCEPT ![p] = NoLoc]
    /\ UNCHANGED <<product, paymentintent, order, clock, calls>>

\* ------------------------------------------------------------- database
\* create_document(collection_name, data): model_dump() plus created_at and
\* updated_at, insert_one; the new document gets the next ObjectId
create_document(coll, name, data, now) ==
    Append(coll, [f \in DOMAIN data \cup {"_id", "created_at", "updated_at"} |->
                    IF f = "_id" THEN Oid(name, Len(coll) + 1)
                    ELSE IF f \in {"created_at", "updated_at"} THEN now
                    ELSE data[f]])

\* str(result.inserted_id) of the create_document above
inserted_id(coll, name) == OidStr(Oid(name, Len(coll) + 1))

\* get_documents(collection_name, filter): the matching documents in order
get_documents(coll, eq) == SelectSeq(coll, LAMBDA d : Matches(d, eq, {}))

\* update_one({"_id": oid}, {"$set": fields}): first document with this _id
update_one(coll, oid, fields) ==
    [i \in DOMAIN coll |->
        IF coll[i]._id = oid
        THEN [f \in DOMAIN coll[i] \cup DOMAIN fields |->
                IF f \in DOMAIN fields THEN fields[f] ELSE coll[i][f]]
        ELSE coll[i]]

\* -------------------------------------------------------------- schemas
\* Product(**req): pydantic validation (price_usd >= 0)
ProductValid(r) == ~r.price_usd.neg

\* PaymentIntent(...): pydantic validation
PaymentIntentValid(d) ==
    /\ ~d.amount_usd.neg
    /\ d.currency \in Currencies
    /\ ~d.amount_crypto.neg
    /\ d.status \in Statuses

\* Order(...): pydantic validation
OrderValid(d) ==
    /\ ~d.amount_usd.neg
    /\ d.currency \in Currencies
    /\ ~d.amount_crypto.neg

\* --------------------------------------------------------------- inputs
ProductInputs ==
    { [kind |-> "product", title |-> "Tee", description |-> None,
       price_usd |-> Decimal(120, 0), image_url |-> None, active |-> TRUE],
      [kind |-> "product", title |-> "Mug", description |-> None,
       price_usd |-> Decimal(2675, 3), image_url |-> None, active |-> FALSE],
      [kind |-> "product", title |-> "Neg", description |-> None,
       price_usd |-> Decimal(-1, 0), image_url |-> None, active |-> TRUE] }

ProductIdInputs ==
    {OidStr(Oid("product", n)) : n \in 1..MaxProducts} \cup {BadIdStr, EmptyStr}

IntentIdInputs ==
    {OidStr(Oid("paymentintent", n)) : n \in 1..MaxIntents} \cup {BadIdStr}

CurrencyInputs == {<<"b", "t", "c">>, <<"e", "t", "h">>}
EmailInputs == {None, "a@x.io"}
SecretInputs == {"demo-secret", "wrong"}

CheckoutInputs ==
    [kind : {"checkout"}, product_id : ProductIdInputs,
     currency : CurrencyInputs, buyer_email : EmailInputs]

WebhookInputs ==
    [kind : {"webhook"}, intent_id : IntentIdInputs, secret : SecretInputs]

\* ------------------------------------------------------------- products
\* GET /products
list_products(p) ==
    /\ Accept(p)
    /\ LET docs == get_documents(product, [active |-> TRUE])
           out == [i \in DOMAIN docs |->
                     [f \in DOMAIN docs[i] \ {"_id"} |-> docs[i][f]]]
       IN  Finish(p, "list_products", Ok([products |-> out]))
    /\ UNCHANGED <<product, paymentintent, order, clock, loc>>

\* POST /products
create_product(p, r) ==
    /\ Accept(p)
    /\ IF ~ProductValid(r)
       THEN /\ Finish(p, "create_product", HttpError(500, "ValidationError"))
            /\ UNCHANGED <<product, clock>>
       ELSE /\ Len(product) < MaxProducts
            /\ product' = create_document(product, "product",
                              [f \in DOMAIN r \ {"kind"} |-> r[f]], clock)
            /\ UNCHANGED clock
            /\ Finish(p, "create_product", Ok([id |-> inserted_id(product, "product")]))
    /\ UNCHANGED <<paymentintent, order, loc>>

\* dict.get(key, default)
Get(d, f, default) == IF f \in DOMAIN d THEN d[f] ELSE default

\* workers whose handler is at one of the given steps
AtStep(steps) == {q \in Procs : pc[q] \in steps}

\* ------------------------------------------------- checkout and payments
\* the filter of the first find_one of create_checkout
FallbackEq == [active |-> TRUE]
FallbackExists == {"_id", "title"}

\* a strict lookup: no fallback to an active product
ResolveStrict(fallback, found) == found

\* prod after the lookup by id: a product found by id replaces the fallback
ResolveProduct(fallback, found) == IF found # <<>> THEN found ELSE fallback

\* the PaymentIntent create_checkout builds from the resolved product, whose
\* price is a number (amount_usd, a float, is held as the decimal it prints as)
NewIntent(prod, currency, core, now) ==
    LET amount_usd == Get(prod, "price_usd", Decimal(0, 0))
        cur == Upper(currency)
    IN  [product_id |-> OidStr(prod._id),
         product_title |-> Get(prod, "title", ""),
         amount_usd |-> amount_usd,
         currency |-> cur,
         address |-> random_address(cur, core),
         amount_crypto |-> usd_to_crypto(amount_usd, cur),
         status |-> "pending",
         expires_at |-> <<now + ExpiryMinutes>>]

\* the email attached to the intent this call created
EmailTargetCreated(picked, created) == created

\* the intent the buyer email is written to: the one the unfiltered find_one
\* returned, whatever intent this call created
EmailTarget(picked, created) == picked

CheckoutResponse(intent_id, intent) ==
    Ok([intent_id |-> intent_id, address |-> intent.address,
        currency |-> intent.currency, amount_crypto |-> intent.amount_crypto,
        amount_usd |-> intent.amount_usd])

\* the document the lookup by req.product_id yields (nothing when the id is
\* empty, does not parse, or matches no product)
LookupById(product_id) ==
    IF product_id = EmptyStr \/ ParseOid(product_id) = InvalidOid
    THEN {<<>>}
    ELSE FindOne(product, [_id |-> ParseOid(product_id)], {})

\* POST /checkout, first store step: the fallback find_one
checkout_fallback(p, r) ==
    /\ Accept(p)
    /\ Len(paymentintent) + Cardinality(AtStep({"co_lookup", "co_insert"})) < MaxIntents
    /\ \E fb \in FindOne(product, FallbackEq, FallbackExists) :
           loc' = [loc EXCEPT ![p] = [NoLoc EXCEPT !.prod = fb,
                                                   !.product_id = r.product_id,
                                                   !.currency = r.currency,
                                                   !.buyer_email = r.buyer_email]]
    /\ pc' = [pc EXCEPT ![p] = "co_lookup"]
    /\ UNCHANGED <<product, paymentintent, order, clock, res>>

\* second store step: the lookup by id; then the product is resolved and the
\* intent is built and validated
checkout_lookup(p) ==
    /\ pc[p] = "co_lookup"
    /\ \E found \in LookupById(loc[p].product_id), core \in AddressCores :
         LET prod == ResolveProduct(loc[p].prod, found) IN
         IF prod = <<>>
         THEN /\ Finish(p, "create_checkout", HttpError(404, "Product not found"))
              /\ UNCHANGED loc
         ELSE IF ~IsNumber(Get(prod[1], "price_usd", Decimal(0, 0)))
         THEN /\ Finish(p, "create_checkout", HttpError(500, "ValueError"))
              /\ UNCHANGED loc
         ELSE \E intent \in {NewIntent(prod[1], loc[p].currency, core, clock)} :
              IF PaymentIntentValid(intent)
              THEN /\ loc' = [loc EXCEPT ![p] =
                                [NoLoc EXCEPT !.intent = <<intent>>,
                                              !.buyer_email = loc[p].buyer_email]]
                   /\ pc' = [pc EXCEPT ![p] = "co_insert"]
                   /\ UNCHANGED res
              ELSE /\ Finish(p, "create_checkout", HttpError(500, "ValidationError"))
                   /\ UNCHANGED loc
    /\ UNCHANGED <<calls, product, paymentintent, order, clock>>

\* third store step: create_document("paymentintent", intent)
checkout_insert(p) ==
    /\ pc[p] = "co_insert"
    /\ paymentintent' = create_document(paymentintent, "paymentintent",
                                        loc[p].intent[1], clock)
    /\ UNCHANGED clock
    /\ loc' = [loc EXCEPT ![p].newId = inserted_id(paymentintent, "paymentintent")]
    /\ IF Truthy(loc[p].buyer_email)
       THEN /\ pc' = [pc EXCEPT ![p] = "co_find"]
            /\ UNCHANGED res
       ELSE Finish(p, "create_checkout",
                   CheckoutResponse(inserted_id(paymentintent, "paymentintent"),
                                    loc[p].intent[1]))
    /\ UNCHANGED <<calls, product, order>>

\* fourth store step: find_one({"_id": {"$exists": True}}) on the intents
checkout_find_any(p) ==
    /\ pc[p] = "co_find"
    /\ \E d \in FindOne(paymentintent, NoEq, {"_id"}) :
           loc' = [loc EXCEPT ![p].picked = d[1]._id]
    /\ pc' = [pc EXCEPT ![p] = "co_update"]
    /\ UNCHANGED <<calls, product, paymentintent, order, clock, res>>

\* fifth store step: update_one($set buyer_email), then the response
checkout_attach_email(p) ==
    /\ pc[p] = "co_update"
    /\ paymentintent' =
           update_one(paymentintent,
                      EmailTarget(loc[p].picked, ParseOid(loc[p].newId)),
                      [buyer_email |-> loc[p].buyer_email])
    /\ Finish(p, "create_checkout", CheckoutResponse(loc[p].newId, loc[p].intent[1]))
    /\ UNCHANGED <<calls, product, order, clock, loc>>

\* the HTTP status of GET /payments/{intent_id} for an id that does not parse
StatusInvalidIdCode == 404

\* GET /payments/{intent_id}
get_payment_status(p, intent_id) ==
    /\ Accept(p)
    /\ IF ParseOid(intent_id) = InvalidOid
       THEN Finish(p, "get_payment_status",
                   HttpError(StatusInvalidIdCode, "Invalid intent id"))
       ELSE \E doc \in FindOne(paymentintent, [_id |-> ParseOid(intent_id)], {}) :
              IF doc = <<>>
              THEN Finish(p, "get_payment_status",
                          HttpError(404, "Payment intent not found"))
              ELSE Finish(p, "get_payment_status",
                     Ok([f \in (DOMAIN doc[1] \ {"_id"}) \cup {"intent_id"} |->
                           IF f = "intent_id" THEN intent_id ELSE doc[1][f]]))
    /\ UNCHANGED <<product, paymentintent, order, clock, loc>>

\* ---------------------------------------------------------------- webhook
\* the id parsed before the secret is compared
WebhookGateParseFirst(secret, intent_id) ==
    IF ParseOid(intent_id) = InvalidOid THEN HttpError(400, "Invalid intent id")
    ELSE IF secret # Expected THEN HttpError(401, "Unauthorized")
    ELSE Ok(<<>>)

\* the checks of webhook_mark_paid that precede the store access
WebhookGate(secret, intent_id) ==
    IF secret # Expected THEN HttpError(401, "Unauthorized")
    ELSE IF ParseOid(intent_id) = InvalidOid THEN HttpError(400, "Invalid intent id")
    ELSE Ok(<<>>)

\* the guard comparing with the wrong status
IsExpired(intent) == Get(intent, "status", None) = "expired"

\* intent.get("status") == "confirmed"
IsConfirmed(intent) == Get(intent, "status", None) = "confirmed"

\* a confirmation that writes another status
MarkExpired(now) == [status |-> "expired", confirmed_at |-> <<now>>]

\* a confirmation that stamps confirmed_at and forgets the status
MarkStampOnly(now) == [confirmed_at |-> <<now>>]

\* the $set of the confirmation
MarkConfirmed(now) == [status |-> "confirmed", confirmed_at |-> <<now>>]

\* the Order built from the intent read at the start of the call
NewOrder(intent_id, intent) ==
    [intent_id |-> intent_id,
     product_id |-> Get(intent, "product_id", ""),
     product_title |-> Get(intent, "product_title", ""),
     amount_usd |-> Get(intent, "amount_usd", Decimal(0, 0)),
     currency |-> Get(intent, "currency", USDC),
     amount_crypto |-> Get(intent, "amount_crypto", Decimal(0, 0)),
     buyer_email |-> None]

\* POST /webhook/mock/crypto, up to and including the read of the intent
webhook_read(p, r) ==
    /\ Accept(p)
    /\ LET gate == WebhookGate(r.secret, r.intent_id) IN
       IF gate.code # 200
       THEN Finish(p, "webhook_mark_paid", gate) /\ UNCHANGED loc
       ELSE \E doc \in FindOne(paymentintent, [_id |-> ParseOid(r.intent_id)], {}) :
              IF doc = <<>>
              THEN Finish(p, "webhook_mark_paid", HttpError(404, "Intent not found"))
                   /\ UNCHANGED loc
              ELSE IF IsConfirmed(doc[1])
              THEN Finish(p, "webhook_mark_paid", Ok([status |-> "already_confirmed"]))
                   /\ UNCHANGED loc
              ELSE /\ Len(order) + Cardinality(AtStep({"wh_update", "wh_insert"}))
                         < MaxOrders
                   /\ loc' = [loc EXCEPT ![p] = [NoLoc EXCEPT !.intent = doc,
                                              !.intent_id = r.intent_id]]
                   /\ pc' = [pc EXCEPT ![p] = "wh_update"]
                   /\ UNCHANGED res
    /\ UNCHANGED <<product, paymentintent, order, clock>>

\* second store step: update_one($set status, confirmed_at)
webhook_update(p) ==
    /\ pc[p] = "wh_update"
    /\ paymentintent' = update_one(paymentintent, ParseOid(loc[p].intent_id),
                                   MarkConfirmed(clock))
    /\ clock' = clock + 1
    /\ pc' = [pc EXCEPT ![p] = "wh_insert"]
    /\ UNCHANGED <<calls, product, order, res, loc>>

\* third store step: create_document("order", order), then the response
webhook_insert(p) ==
    /\ pc[p] = "wh_insert"
    /\ LET o == NewOrder(loc[p].intent_id, loc[p].intent[1]) IN
       IF IsNumber(o.amount_usd) /\ IsNumber(o.amount_crypto) /\ OrderValid(o)
       THEN /\ order' = create_document(order, "order", o, clock)
            /\ clock' = clock + 1
            /\ loc' = [loc EXCEPT ![p].newId = inserted_id(order, "order")]
            /\ Finish(p, "webhook_mark_paid",
                      Ok([status |-> "confirmed",
                          order_id |-> inserted_id(order, "order")]))
       ELSE /\ Finish(p, "webhook_mark_paid", HttpError(500, "ValidationError"))
            /\ UNCHANGED <<order, clock, loc>>
    /\ UNCHANGED <<calls, product, paymentintent>>

\* -------------------------------------------------------------- dashboard
\* the loop over the orders from position i on: total_revenue += float(...),
\* an amount float() rejects is skipped
RECURSIVE SumFrom(_, _, _)
SumFrom(s, i, total) ==
    IF i > Len(s) THEN total
    ELSE LET v == Get(s[i], "amount_usd", Decimal(0, 0))
         IN  SumFrom(s, i + 1, IF IsNumber(v) THEN DAdd(total, float(v)) ELSE total)

SumAmounts(s) == SumFrom(s, 1, Zero)

\* sort("created_at", -1): newest first
RECURSIVE SortNewestFirst(_)
SortNewestFirst(s) ==
    IF s = <<>> THEN <<>>
    ELSE LET i == CHOOSE k \in DOMAIN s :
                    \A j \in DOMAIN s :
                        \/ s[j].created_at < s[k].created_at
                        \/ (s[j].created_at = s[k].created_at /\ k <= j)
             rest == [j \in 1..(Len(s) - 1) |-> IF j < i THEN s[j] ELSE s[j + 1]]
         IN  <<s[i]>> \o SortNewestFirst(rest)

\* limit(n)
Limit(s, n) == IF Len(s) <= n THEN s ELSE SubSeq(s, 1, n)

\* GET /dashboard/summary, first store step: count_documents on the products
dashboard_count_products(p) ==
    /\ Accept(p)
    /\ loc' = [loc EXCEPT ![p] = [NoLoc EXCEPT !.total_products = Len(product)]]
    /\ pc' = [pc EXCEPT ![p] = "da_orders"]
    /\ UNCHANGED <<product, paymentintent, order, clock, res>>

\* second store step: count_documents on the orders
dashboard_count_orders(p) ==
    /\ pc[p] = "da_orders"
    /\ loc' = [loc EXCEPT ![p].total_orders = Len(order)]
    /\ pc' = [pc EXCEPT ![p] = "da_sum"]
    /\ UNCHANGED <<calls, product, paymentintent, order, clock, res>>

\* third store step: find({}) on the orders, summed
dashboard_sum_revenue(p) ==
    /\ pc[p] = "da_sum"
    /\ loc' = [loc EXCEPT ![p].total_revenue = SumAmounts(order)]
    /\ pc' = [pc EXCEPT ![p] = "da_recent"]
    /\ UNCHANGED <<calls, product, paymentintent, order, clock, res>>

\* fourth store step: the newest orders; then the response
dashboard_recent_orders(p) ==
    /\ pc[p] = "da_recent"
    /\ LET recent == Limit(SortNewestFirst(order), RecentLimit) IN
       Finish(p, "dashboard_summary",
              Ok([total_products |-> loc[p].total_products,
                  total_orders |-> loc[p].total_orders,
                  total_revenue |-> round(loc[p].total_revenue, 2),
                  recent_orders |->
                      [i \in DOMAIN recent |->
                         [f \in DOMAIN recent[i] \ {"_id"} |-> recent[i][f]]]]))
    /\ UNCHANGED <<calls, product, paymentintent, order, clock, loc>>

Next ==
    \E p \in Procs :
        \/ Return(p)
        \/ list_products(p)
        \/ \E r \in ProductInputs : create_product(p, r)
        \/ \E r \in CheckoutInputs : checkout_fallback(p, r)
        \/ checkout_lookup(p)
        \/ checkout_insert(p)
        \/ checkout_find_any(p)
        \/ checkout_attach_email(p)
        \/ \E id \in IntentIdInputs : get_payment_status(p, id)
        \/ \E r \in WebhookInputs : webhook_read(p, r)
        \/ webhook_update(p)
        \/ webhook_insert(p)
        \/ dashboard_count_products(p)
        \/ dashboard_count_orders(p)
        \/ dashboard_sum_revenue(p)
        \/ dashboard_recent_orders(p)

Spec == Init /\ [][Next]_vars
\* ================================================================ claims
\* the stored intents with the given ObjectId
IntentsWithId(oid) == Matching(paymentintent, [_id |-> oid], {})

\* the stored products with the given ObjectId
ProductsWithId(oid) == Matching(product, [_id |-> oid], {})

\* a document with one field set
WithField(d, f, v) == [g \in DOMAIN d \cup {f} |-> IF g = f THEN v ELSE d[g]]

WebhookDone(p) == pc[p] = "done" /\ res[p].op = "webhook_mark_paid"

\* C1: in every reachable state the order collection holds at most one Order
\* per intent_id, whatever the interleaving of the webhook calls.
C1_AtMostOneOrderPerIntent ==
    \A i, j \in DOMAIN order : order[i].intent_id = order[j].intent_id => i = j

\* C2: a confirm call that found its intent pending leaves the intent
\* confirmed, adds exactly one Order and answers status "confirmed" with a
\* non-empty order_id; the new Order carries the intent's id and the
\* product_id, product_title, amount_usd, currency, amount_crypto and
\* buyer_email stored on that intent.
C2_ConfirmCreatesMatchingOrder ==
    [][\A p \in Procs : webhook_insert(p) =>
         \A d \in IntentsWithId(ParseOid(loc[p].intent_id)) :
            LET new == order'[Len(order')] IN
            /\ d.status = "confirmed"
            /\ Len(order') = Len(order) + 1
            /\ res'[p].code = 200
            /\ res'[p].body.status = "confirmed"
            /\ res'[p].body.order_id # EmptyStr
            /\ new.intent_id = OidStr(d._id)
            /\ new.product_id = d.product_id
            /\ new.product_title = d.product_title
            /\ new.amount_usd = d.amount_usd
            /\ new.currency = d.currency
            /\ new.amount_crypto = d.amount_crypto
            /\ new.buyer_email = Get(d, "buyer_email", None)]_vars

\* C3: a confirm call with the correct secret on an intent that is already
\* confirmed answers status "already_confirmed" without an order_id, ends
\* there, and leaves products, intents (status and confirmed_at included) and
\* orders as they were.
C3_AlreadyConfirmedChangesNothing ==
    [][\A p \in Procs, r \in WebhookInputs :
         ( /\ webhook_read(p, r)
           /\ r.secret = Expected
           /\ \E d \in IntentsWithId(ParseOid(r.intent_id)) : d.status = "confirmed" )
         => /\ pc'[p] = "done"
            /\ res'[p].code = 200
            /\ res'[p].body = [status |-> "already_confirmed"]
            /\ UNCHANGED store]_vars

C3_Witness ==
    \E p \in Procs :
        /\ WebhookDone(p)
        /\ res[p].code = 200
        /\ res[p].body.status = "already_confirmed"
        /\ \E d \in Matching(paymentintent, [status |-> "confirmed"], {}) :
               Cardinality(Matching(order, [intent_id |-> OidStr(d._id)], {})) = 1

\* C4: a confirm call whose secret differs from the configured one answers
\* 401 for every intent_id (malformed, unknown, pending or confirmed), ends
\* there, and leaves products, intents and orders as they were.
C4_WrongSecretUnauthorized ==
    [][\A p \in Procs, r \in WebhookInputs :
         (webhook_read(p, r) /\ r.secret # Expected)
         => /\ pc'[p] = "done"
            /\ res'[p].code = 401
            /\ UNCHANGED store]_vars

C4_Witness ==
    \E p \in Procs :
        /\ WebhookDone(p)
        /\ res[p].code = 401
        /\ paymentintent # <<>>

\* C5: an intent in the store changes only when the webhook confirms it
\* (status becomes confirmed, confirmed_at is stamped); a checkout writes at
\* most to the intent it has itself just created.
C5_OnlyWebhookMutatesIntents ==
    [][\A i \in DOMAIN paymentintent :
         /\ i \in DOMAIN paymentintent'
         /\ paymentintent'[i] # paymentintent[i] =>
              \/ \E p \in Procs :
                    /\ webhook_update(p)
                    /\ paymentintent'[i] =
                         WithField(WithField(paymentintent[i], "status", "confirmed"),
                                   "confirmed_at", paymentintent'[i].confirmed_at)
              \/ \E p \in Procs :
                    /\ checkout_attach_email(p)
                    /\ paymentintent[i]._id = ParseOid(loc[p].newId)]_vars

\* what the lookup by id of a checkout in flight finds in the store
IdMatches(product_id) ==
    /\ product_id # EmptyStr
    /\ ParseOid(product_id) # InvalidOid
    /\ ProductsWithId(ParseOid(product_id)) # {}

ActiveProducts == Matching(product, [active |-> TRUE], {})

\* the fallback read yields an active product exactly when one exists
FallbackYieldsActive(p) ==
    IF ActiveProducts = {} THEN loc'[p].prod = <<>>
    ELSE loc'[p].prod # <<>> /\ loc'[p].prod[1] \in ActiveProducts

\* 404 exactly when neither path yields a product, and then nothing is stored
NotFoundExactly(p) ==
    /\ (pc'[p] = "done" /\ res'[p].code = 404)
          <=> (loc[p].prod = <<>> /\ ~IdMatches(loc[p].product_id))
    /\ pc'[p] = "done" => UNCHANGED store

\* the call goes on to insert an intent for the product with this id string
ProceedsWith(p, product_id) ==
    /\ pc'[p] = "co_insert"
    /\ loc'[p].intent[1].product_id = product_id
    /\ loc'[p].intent[1].status = "pending"

\* C6 (as amended): checkout answers 404, storing no intent, exactly when the
\* fallback yields no active product and product_id is empty, malformed or
\* matches no product.  Otherwise the product matched by id is used, or, without
\* a match, the active product of the fallback; the call then goes on to store
\* the intent when the upper-cased currency is USDC, USDT or BTC, and fails
\* validation (500), storing nothing, for any other currency.
C6_CheckoutResolution ==
    [][\A p \in Procs :
         /\ (\E r \in CheckoutInputs : checkout_fallback(p, r)) => FallbackYieldsActive(p)
         /\ checkout_lookup(p) =>
              /\ NotFoundExactly(p)
              /\ (IdMatches(loc[p].product_id) /\ Upper(loc[p].currency) \in Currencies)
                    => ProceedsWith(p, loc[p].product_id)
              /\ (~IdMatches(loc[p].product_id) /\ loc[p].prod # <<>>
                     /\ Upper(loc[p].currency) \in Currencies)
                    => ProceedsWith(p, OidStr(loc[p].prod[1]._id))
              /\ ((IdMatches(loc[p].product_id) \/ loc[p].prod # <<>>)
                     /\ Upper(loc[p].currency) \notin Currencies)
                    => (pc'[p] = "done" /\ res'[p].code = 500)
         /\ checkout_insert(p) =>
              /\ Len(paymentintent') = Len(paymentintent) + 1
              /\ paymentintent'[Len(paymentintent')].product_id
                    = loc[p].intent[1].product_id]_vars

\* C6 as stated: with a product matched by id, or without a match and an
\* active product from the fallback, checkout succeeds (whatever the currency).
C6_Original ==
    [][\A p \in Procs :
         checkout_lookup(p) =>
              /\ NotFoundExactly(p)
              /\ IdMatches(loc[p].product_id) => ProceedsWith(p, loc[p].product_id)
              /\ (~IdMatches(loc[p].product_id) /\ loc[p].prod # <<>>)
                    => ProceedsWith(p, OidStr(loc[p].prod[1]._id))]_vars

\* a checkout about to store an intent for an inactive product matched by id
\* while an active product exists
C6_Witness ==
    \E p \in Procs :
        /\ pc[p] = "co_insert"
        /\ ActiveProducts # {}
        /\ \E d \in Matching(product, [active |-> FALSE], {}) :
               loc[p].intent[1].product_id = OidStr(d._id)

\* C7: get_status answers 400 for an id that does not parse and 404 for an id
\* that parses and matches no intent; confirm with the correct secret reports
\* the same two, InvalidId first; neither failure changes the store.
C7_InvalidIdThenNotFound ==
    [][\A p \in Procs, id \in IntentIdInputs :
         /\ get_payment_status(p, id) =>
              /\ ParseOid(id) = InvalidOid => res'[p].code = 400
              /\ (ParseOid(id) # InvalidOid /\ IntentsWithId(ParseOid(id)) = {})
                    => res'[p].code = 404
              /\ UNCHANGED store
         /\ webhook_read(p, [kind |-> "webhook", intent_id |-> id, secret |-> Expected]) =>
              /\ ParseOid(id) = InvalidOid => res'[p].code = 400
              /\ (ParseOid(id) # InvalidOid /\ IntentsWithId(ParseOid(id)) = {})
                    => res'[p].code = 404
              /\ UNCHANGED store]_vars

\* C8: the buyer email is written to the intent the unfiltered find_one
\* returned, which is some stored intent, and to no other: the intent the
\* call created receives it only when it is the one returned.
C8_EmailGoesToPickedIntent ==
    [][\A p \in Procs :
         /\ checkout_find_any(p) => IntentsWithId(loc'[p].picked) # {}
         /\ checkout_attach_email(p) =>
              /\ DOMAIN paymentintent' = DOMAIN paymentintent
              /\ \A i \in DOMAIN paymentintent :
                    paymentintent'[i] =
                       IF paymentintent[i]._id = loc[p].picked
                       THEN WithField(paymentintent[i], "buyer_email", loc[p].buyer_email)
                       ELSE paymentintent[i]]_vars

\* a checkout with an email has answered; an earlier intent carries the email
\* and the intent the call created carries none
C8_Witness ==
    \E p \in Procs :
        /\ pc[p] = "done"
        /\ res[p].op = "create_checkout"
        /\ res[p].code = 200
        /\ Truthy(loc[p].buyer_email)
        /\ loc[p].picked # ParseOid(loc[p].newId)
        /\ \E d \in IntentsWithId(loc[p].picked) :
               Get(d, "buyer_email", None) = loc[p].buyer_email
        /\ \E d \in IntentsWithId(ParseOid(loc[p].newId)) :
               Get(d, "buyer_email", None) = None

\* C9: intents are never removed; a new intent is pending; a stored intent is
\* pending or confirmed, never expired; its status changes only from pending
\* to confirmed, so a confirmed intent stays confirmed.
C9_StatusLifecycle ==
    [][/\ Len(paymentintent') >= Len(paymentintent)
       /\ \A i \in DOMAIN paymentintent' :
            /\ paymentintent'[i].status \in {"pending", "confirmed"}
            /\ i \notin DOMAIN paymentintent => paymentintent'[i].status = "pending"
            /\ i \in DOMAIN paymentintent =>
                 /\ paymentintent'[i]._id = paymentintent[i]._id
                 /\ \/ paymentintent'[i].status = paymentintent[i].status
                    \/ /\ paymentintent[i].status = "pending"
                       /\ paymentintent'[i].status = "confirmed"]_vars

\* the webhook has answered and a confirmed intent stands next to a pending
\* one
C9_Witness ==
    /\ \E d \in Matching(paymentintent, [status |-> "confirmed"], {}) :
           \E p \in Procs : WebhookDone(p) /\ res[p].code = 200
    /\ Matching(paymentintent, [status |-> "pending"], {}) # {}

\* C10: every Order's intent_id parses and names a stored intent whose status
\* is confirmed.
C10_OrdersReferToConfirmedIntents ==
    \A k \in DOMAIN order :
        /\ ParseOid(order[k].intent_id) # InvalidOid
        /\ \E d \in IntentsWithId(ParseOid(order[k].intent_id)) : d.status = "confirmed"

\* an Order exists for one call while a second call on the same intent is
\* between its two writes; and the converse gap: a confirmed intent without
\* an Order
C10_Witness ==
    /\ order # <<>>
    /\ \E p \in Procs : pc[p] = "wh_insert"

C10_ConfirmedWithoutOrder ==
    \E d \in Matching(paymentintent, [status |-> "confirmed"], {}) :
        Matching(order, [intent_id |-> OidStr(d._id)], {}) = {}
====
